---- MODULE Spec2Model ----
(***************************************************************************)
(* Model of the feedforward layers of                                      *)
(* supervised_learning/low_level_implementations/feedforward_nn/layers.py: *)
(* Dense, Relu and Softmax, each with forward_pass and backward_pass.      *)
(*                                                                         *)
(* Arrays are numpy 2-d arrays, [features, samples].  They live in a heap  *)
(* of array objects, because the code stores and returns references: a     *)
(* layer's cache can be the very array the caller passed or got back.      *)
(* Numbers are exact rationals <<numerator, denominator>>; floating-point  *)
(* rounding is not modelled.  np.exp is modelled as 2^z on integer inputs, *)
(* which keeps every value rational and keeps what the layers rely on:     *)
(* exp(z) > 0, exp(0) = 1 and exp(a + b) = exp(a) * exp(b).                *)
(***************************************************************************)
EXTENDS Integers, Sequences, FiniteSets, TLC

\* ------------------------------------------------------------------ bounds
MaxDim   == 2   \* rows of an array: feature / neuron counts are 1..MaxDim
MaxBatch == 2   \* columns of an array: batch sizes are 1..MaxBatch
MaxCalls == 3   \* forward and backward calls in a run of the chained specification
MaxEntryCalls == 2   \* calls through Layer.__call__ in a run of SpecCall

\* ------------------------------------------------------------- rationals
Abs(n) == IF n < 0 THEN -n ELSE n

RECURSIVE Gcd(_, _)
Gcd(a, b) == IF b = 0 THEN a ELSE Gcd(b, a % b)

\* the rational n/d in lowest terms, with a positive denominator
Q(n, d) ==
    LET g == Gcd(Abs(n), Abs(d))
        s == IF d < 0 THEN -1 ELSE 1
    IN  <<s * (n \div g), s * (d \div g)>>

QInt(n)    == <<n, 1>>
QAdd(p, q) == LET l == (p[2] \div Gcd(p[2], q[2])) * q[2]
              IN  Q(p[1] * (l \div p[2]) + q[1] * (l \div q[2]), l)
QNeg(p)    == <<-p[1], p[2]>>
QSub(p, q) == QAdd(p, QNeg(q))
QMul(p, q) == LET a == Q(p[1], q[2])
                  b == Q(q[1], p[2])
              IN  <<a[1] * b[1], a[2] * b[2]>>
QLess(p, q)  == p[1] * q[2] < q[1] * p[2]
QIsInt(p)    == p[2] = 1
QZero        == QInt(0)
QOne         == QInt(1)

RECURSIVE QSum(_)
QSum(s) == IF s = <<>> THEN QZero ELSE QAdd(s[1], QSum(Tail(s)))

RECURSIVE QMax(_)
QMax(s) == IF Len(s) = 1 THEN s[1]
           ELSE LET m == QMax(Tail(s)) IN IF QLess(s[1], m) THEN m ELSE s[1]

RECURSIVE Pow2(_)
Pow2(n) == IF n = 0 THEN 1 ELSE 2 * Pow2(n - 1)

\* np.exp on an integer entry z (see the module comment): 2^z
Exp(z) == IF z[1] >= 0 THEN QInt(Pow2(z[1])) ELSE Q(1, Pow2(-z[1]))

\* ---------------------------------------------------------------- arrays
\* A 2-d array is a sequence of rows, each a sequence of rationals.
Rows(A)  == Len(A)
Cols(A)  == Len(A[1])
Shape(A) == <<Rows(A), Cols(A)>>

\* The array A, evaluated once: TLC would otherwise re-evaluate an entry's
\* defining expression at every access to it.
Force(A) == CHOOSE B \in {A} : B = B

Zeros(r, c) == [i \in 1..r |-> [j \in 1..c |-> QZero]]

Transpose(A) ==
    Force([j \in 1..Cols(A) |-> [i \in 1..Rows(A) |-> A[i][j]]])

Column(A, j) == [i \in 1..Rows(A) |-> A[i][j]]

\* np.dot / np.matmul of two 2-d arrays whose inner dimensions agree
MatMul(A, B) ==
    Force([i \in 1..Rows(A) |-> [j \in 1..Cols(B) |->
        QSum([t \in 1..Cols(A) |-> QMul(A[i][t], B[t][j])])]])

\* scalar * array
Scale(q, A) ==
    Force([i \in 1..Rows(A) |-> [j \in 1..Cols(A) |-> QMul(q, A[i][j])]])

\* numpy broadcasting of two 2-d shapes: each dimension equal, or one of them 1
Broadcastable(s, t) ==
    /\ (s[1] = t[1] \/ s[1] = 1 \/ t[1] = 1)
    /\ (s[2] = t[2] \/ s[2] = 1 \/ t[2] = 1)

Max2(a, b) == IF a < b THEN b ELSE a

BroadcastShape(s, t) == <<Max2(s[1], t[1]), Max2(s[2], t[2])>>

\* entry (i, j) of A stretched to a broadcast shape
At(A, i, j) == A[IF Rows(A) = 1 THEN 1 ELSE i][IF Cols(A) = 1 THEN 1 ELSE j]

\* np.sum(A, axis=1, keepdims=True): one column of row sums
SumAxis1(A) ==
    Force([i \in 1..Rows(A) |-> <<QSum(A[i])>>])

\* np.sum(A, axis=0, keepdims=True): one row of column sums
SumAxis0(A) ==
    Force(<< [j \in 1..Cols(A) |-> QSum(Column(A, j))] >>)

\* np.max(A, axis=0, keepdims=True): one row of column maxima
MaxAxis0(A) ==
    Force(<< [j \in 1..Cols(A) |-> QMax(Column(A, j))] >>)

IsIntArray(A) == \A i \in 1..Rows(A) : \A j \in 1..Cols(A) : QIsInt(A[i][j])

\* The arrays a caller passes and the weights np.random.randn draws: seed 0
\* is the all-ones array, the other seeds mix negative, zero and positive.
Gen(r, c, s) ==
    Force([i \in 1..r |-> [j \in 1..c |->
        IF s = 0 THEN QOne ELSE QInt(((s + 2 * i + j) % 4) - 1)]])

Seeds == {0, 1}

\* ------------------------------------------------------------------ state
VARIABLES
    heap,     \* the live array objects: address -> 2-d array
    dense,    \* the Dense instance's attributes (references into heap, or None)
    relu,     \* the Relu instance's attributes
    softmax,  \* the Softmax instance's attributes
    args,     \* the caller's own two arrays: args.x and args.dy (references)
    ret,      \* outcome of the last call: a returned reference or a raised exception
    call,     \* the last call: layer, method, argument, and the call before it
    calls     \* number of calls made (chained specification)

vars == <<heap, dense, relu, softmax, args, ret, call, calls>>

None == 0          \* Python's None, for references and for m_samples

Raise(exc) == [kind |-> "raise",  exc |-> exc,    ref |-> None]
Return(a)  == [kind |-> "return", exc |-> "none", ref |-> a]
NoCall     == [kind |-> "none",   exc |-> "none", ref |-> None]

\* The heap is the sequence of the live array objects; a reference is an
\* index into it.  A new array object goes at the end.
NewAddr(h) == Len(h) + 1

\* h with a fresh array object holding value v
Store(h, v) == Append(h, v)

\* every reference held, in a fixed order: the caller's arrays, the last
\* result, then the layers' attributes
Roots(d, r, s, ar, rt) ==
    <<ar.x, ar.dy, rt.ref, d.layer_input, d.weights, d.bias, d.grad_weights,
      d.grad_bias, r.layer_input, s.layer_output>>

\* Python's garbage collection, with the surviving objects renumbered in the
\* order Roots first reaches them: an address means nothing but identity, so
\* two references are equal afterwards exactly when they were before.
\* Renumber(roots, <<>>) maps each reachable address to its new address.
RECURSIVE Renumber(_, _)
Renumber(roots, f) ==
    IF roots = <<>> THEN f
    ELSE IF roots[1] = None \/ roots[1] \in DOMAIN f
         THEN Renumber(Tail(roots), f)
         ELSE Renumber(Tail(roots), f @@ (roots[1] :> Cardinality(DOMAIN f) + 1))

Moved(f, a) == IF a = None THEN None ELSE f[a]

Collect(h, f) ==
    [b \in 1..Cardinality(DOMAIN f) |-> h[CHOOSE a \in DOMAIN f : f[a] = b]]

MoveDense(d, f) ==
    [d EXCEPT !.layer_input = Moved(f, @), !.weights = Moved(f, @),
              !.bias = Moved(f, @), !.grad_weights = Moved(f, @),
              !.grad_bias = Moved(f, @)]
MoveRelu(r, f)    == [r EXCEPT !.layer_input = Moved(f, @)]
MoveSoftmax(s, f) == [s EXCEPT !.layer_output = Moved(f, @)]
MoveArgs(ar, f)   == [x |-> Moved(f, ar.x), dy |-> Moved(f, ar.dy)]
MoveRet(rt, f)    == [rt EXCEPT !.ref = Moved(f, @)]

\* outcome of one method call: the heap, the layer's attributes, the result
Outcome(h, l, rt) == [heap |-> h, layer |-> l, ret |-> rt]

\* ------------------------------------------------------------------ Dense
\* Dense.__init__
DenseInit(n) ==
    [n_neurons |-> n, layer_input |-> None, m_samples |-> None,
     weights |-> None, bias |-> None, grad_weights |-> None, grad_bias |-> None]

\* A + B with numpy broadcasting (shapes broadcastable)
AddBroadcast(A, B) ==
    Force(LET sh == BroadcastShape(Shape(A), Shape(B))
    IN  [i \in 1..sh[1] |-> [j \in 1..sh[2] |-> QAdd(At(A, i, j), At(B, i, j))]])

\* Z = W . A_prev + b
Preactivation(W, X, B) == AddBroadcast(MatMul(W, X), B)

\* mutant: the sum over the batch, not its average
GradWeights_sum(dZ, X, m) == MatMul(dZ, Transpose(X))

\* dW = (1 / m_samples) * np.dot(dZ, A_prev.T)
GradWeights(dZ, X, m) == Scale(Q(1, m), MatMul(dZ, Transpose(X)))

\* mutant: np.sum over axis 0, the feature axis
GradBias_axis0(dZ, m) == Scale(Q(1, m), SumAxis0(dZ))

\* db = (1 / m_samples) * np.sum(dZ, axis=1, keepdims=True)
GradBias(dZ, m) == Scale(Q(1, m), SumAxis1(dZ))

\* dA_prev = np.dot(W.T, dZ)
GradPrevActivation(W, dZ) == MatMul(Transpose(W), dZ)

\* mutant: the weights are drawn with the two axes exchanged
Dense_initialise_weights_transposed(h, d, prev, seed) ==
    LET h1 == Store(h, Gen(prev, d.n_neurons, seed))
        w  == NewAddr(h)
        h2 == Store(h1, Zeros(prev, d.n_neurons))
        gw == NewAddr(h1)
    IN  Outcome(h2, [d EXCEPT !.weights = w, !.grad_weights = gw], Return(None))

\* Dense.initialise_weights(prev_layer_neurons); the random draw is Gen(.., seed)
Dense_initialise_weights(h, d, prev, seed) ==
    LET h1 == Store(h, Gen(d.n_neurons, prev, seed))
        w  == NewAddr(h)
        h2 == Store(h1, Zeros(d.n_neurons, prev))
        gw == NewAddr(h1)
    IN  Outcome(h2, [d EXCEPT !.weights = w, !.grad_weights = gw], Return(None))

\* Dense.initialise_bias()
Dense_initialise_bias(h, d) ==
    LET h1 == Store(h, Zeros(d.n_neurons, 1))
        b  == NewAddr(h)
        h2 == Store(h1, Zeros(d.n_neurons, 1))
        gb == NewAddr(h1)
    IN  Outcome(h2, [d EXCEPT !.bias = b, !.grad_bias = gb], Return(None))

\* mutant: m_samples read from shape[0], the feature axis
Dense_forward_pass_rows(h, d, a) ==
    IF d.weights = None
    THEN Outcome(h, d, Raise("TypeError"))
    ELSE IF Cols(h[d.weights]) # Rows(h[a])
    THEN Outcome(h, d, Raise("ValueError"))
    ELSE IF d.bias = None
    THEN Outcome(h, d, Raise("TypeError"))
    ELSE Outcome(Store(h, AddBroadcast(MatMul(h[d.weights], h[a]), h[d.bias])),
                 [d EXCEPT !.layer_input = a, !.m_samples = Rows(h[a])],
                 Return(NewAddr(h)))

\* mutant: a missing bias is skipped instead of failing
Dense_forward_pass_nobias(h, d, a) ==
    IF d.weights = None
    THEN Outcome(h, d, Raise("TypeError"))
    ELSE IF Cols(h[d.weights]) # Rows(h[a])
    THEN Outcome(h, d, Raise("ValueError"))
    ELSE Outcome(Store(h, IF d.bias = None THEN MatMul(h[d.weights], h[a])
                          ELSE AddBroadcast(MatMul(h[d.weights], h[a]), h[d.bias])),
                 [d EXCEPT !.layer_input = a, !.m_samples = Cols(h[a])],
                 Return(NewAddr(h)))

\* mutant: the batch size accumulates over forward calls
Dense_forward_pass_accumulate(h, d, a) ==
    IF d.weights = None
    THEN Outcome(h, d, Raise("TypeError"))
    ELSE IF Cols(h[d.weights]) # Rows(h[a])
    THEN Outcome(h, d, Raise("ValueError"))
    ELSE IF d.bias = None
    THEN Outcome(h, d, Raise("TypeError"))
    ELSE Outcome(Store(h, AddBroadcast(MatMul(h[d.weights], h[a]), h[d.bias])),
                 [d EXCEPT !.layer_input = a,
                           !.m_samples = d.m_samples + Cols(h[a])],
                 Return(NewAddr(h)))

\* Dense.forward_pass(prev_layer_activation), a the argument's reference
Dense_forward_pass(h, d, a) ==
    IF d.weights = None
    THEN Outcome(h, d, Raise("TypeError"))        \* np.dot(None, array)
    ELSE IF Cols(h[d.weights]) # Rows(h[a])
    THEN Outcome(h, d, Raise("ValueError"))       \* np.dot: shapes not aligned
    ELSE IF d.bias = None
    THEN Outcome(h, d, Raise("TypeError"))        \* array + None
    ELSE LET z == Preactivation(h[d.weights], h[a], h[d.bias])
         IN  Outcome(Store(h, z),
                     [d EXCEPT !.layer_input = a, !.m_samples = Cols(h[a])],
                     Return(NewAddr(h)))

\* mutant: a backward call that returns clears the cache it has read
Dense_backward_pass_consume(h, d, a) ==
    IF d.m_samples = None
    THEN Outcome(h, d, Raise("TypeError"))
    ELSE IF Cols(h[a]) # Cols(h[d.layer_input])
    THEN Outcome(h, d, Raise("ValueError"))
    ELSE
    LET gwv == GradWeights(h[a], h[d.layer_input], d.m_samples)
        h1  == Store(h, gwv)
        d1  == [d EXCEPT !.grad_weights = NewAddr(h)]
    IN  IF Shape(gwv) # Shape(h[d.weights])
        THEN Outcome(h1, d1, Raise("AssertionError"))
        ELSE
    LET gbv == GradBias(h[a], d.m_samples)
        h2  == Store(h1, gbv)
        d2  == [d1 EXCEPT !.grad_bias = NewAddr(h1)]
    IN  IF Shape(gbv) # Shape(h[d.bias])
        THEN Outcome(h2, d2, Raise("AssertionError"))
        ELSE IF Rows(h[d.weights]) # Rows(h[a])
        THEN Outcome(h2, d2, Raise("ValueError"))
        ELSE
    LET dxv == GradPrevActivation(h[d.weights], h[a])
    IN  IF Shape(dxv) # Shape(h[d.layer_input])
        THEN Outcome(h2, d2, Raise("AssertionError"))
        ELSE Outcome(Store(h2, dxv),
                     [d2 EXCEPT !.layer_input = None, !.m_samples = None],
                     Return(NewAddr(h2)))

\* Dense.backward_pass(grad_layer_preactivation), a the argument's reference.
\* The statements run in order, so an exception keeps the assignments made
\* before it.
Dense_backward_pass(h, d, a) ==
    IF d.m_samples = None
    THEN Outcome(h, d, Raise("TypeError"))        \* 1 / None
    ELSE IF Cols(h[a]) # Cols(h[d.layer_input])
    THEN Outcome(h, d, Raise("ValueError"))       \* np.dot(dZ, A.T) not aligned
    ELSE
    LET gwv == GradWeights(h[a], h[d.layer_input], d.m_samples)
        h1  == Store(h, gwv)
        d1  == [d EXCEPT !.grad_weights = NewAddr(h)]
    IN  IF Shape(gwv) # Shape(h[d.weights])
        THEN Outcome(h1, d1, Raise("AssertionError"))
        ELSE
    LET gbv == GradBias(h[a], d.m_samples)
        h2  == Store(h1, gbv)
        d2  == [d1 EXCEPT !.grad_bias = NewAddr(h1)]
    IN  IF Shape(gbv) # Shape(h[d.bias])
        THEN Outcome(h2, d2, Raise("AssertionError"))
        ELSE IF Rows(h[d.weights]) # Rows(h[a])
        THEN Outcome(h2, d2, Raise("ValueError")) \* np.dot(W.T, dZ) not aligned
        ELSE
    LET dxv == GradPrevActivation(h[d.weights], h[a])
    IN  IF Shape(dxv) # Shape(h[d.layer_input])
        THEN Outcome(h2, d2, Raise("AssertionError"))
        ELSE Outcome(Store(h2, dxv), d2, Return(NewAddr(h2)))

\* ------------------------------------------------------------------- Relu
\* Relu.__init__
ReluInit == [layer_input |-> None]

\* np.maximum(0, Z)
Maximum0(Z) ==
    Force([i \in 1..Rows(Z) |-> [j \in 1..Cols(Z) |->
        IF QLess(QZero, Z[i][j]) THEN Z[i][j] ELSE QZero]])

\* mutant: the mask of A >= 0
MaskPositive_ge(A) ==
    Force([i \in 1..Rows(A) |-> [j \in 1..Cols(A) |->
        IF QLess(A[i][j], QZero) THEN QZero ELSE QOne]])

\* (A > 0): the binary mask, as 0/1 entries
MaskPositive(A) ==
    Force([i \in 1..Rows(A) |-> [j \in 1..Cols(A) |->
        IF QLess(QZero, A[i][j]) THEN QOne ELSE QZero]])

\* A * B elementwise with numpy broadcasting (shapes broadcastable)
MulBroadcast(A, B) ==
    Force(LET sh == BroadcastShape(Shape(A), Shape(B))
    IN  [i \in 1..sh[1] |-> [j \in 1..sh[2] |-> QMul(At(A, i, j), At(B, i, j))]])

\* Relu.forward_pass(layer_preactivation): the returned array is the cached one
Relu_forward_pass(h, r, a) ==
    Outcome(Store(h, Maximum0(h[a])),
            [r EXCEPT !.layer_input = NewAddr(h)],
            Return(NewAddr(h)))

\* mutant: the cache is consumed by the backward call that reads it
Relu_backward_pass_consume(h, r, a) ==
    IF r.layer_input = None
    THEN Outcome(h, r, Raise("TypeError"))
    ELSE IF ~Broadcastable(Shape(h[a]), Shape(h[r.layer_input]))
    THEN Outcome(h, r, Raise("ValueError"))
    ELSE
    LET dz == MulBroadcast(h[a], MaskPositive(h[r.layer_input]))
    IN  IF Shape(dz) # Shape(h[r.layer_input])
        THEN Outcome(h, r, Raise("AssertionError"))
        ELSE Outcome(Store(h, dz), [r EXCEPT !.layer_input = None],
                     Return(NewAddr(h)))

\* Relu.backward_pass(grad_layer_activation)
Relu_backward_pass(h, r, a) ==
    IF r.layer_input = None
    THEN Outcome(h, r, Raise("TypeError"))        \* None > 0
    ELSE IF ~Broadcastable(Shape(h[a]), Shape(h[r.layer_input]))
    THEN Outcome(h, r, Raise("ValueError"))       \* operands could not be broadcast
    ELSE
    LET dz == MulBroadcast(h[a], MaskPositive(h[r.layer_input]))
    IN  IF Shape(dz) # Shape(h[r.layer_input])
        THEN Outcome(h, r, Raise("AssertionError"))
        ELSE Outcome(Store(h, dz), r, Return(NewAddr(h)))

\* ---------------------------------------------------------------- Softmax
\* Softmax.__init__
SoftmaxInit == [layer_output |-> None]

\* p / q, q nonzero
QDiv(p, q) == QMul(p, Q(q[2], q[1]))

\* A - B with numpy broadcasting (shapes broadcastable)
SubBroadcast(A, B) ==
    Force(LET sh == BroadcastShape(Shape(A), Shape(B))
    IN  [i \in 1..sh[1] |-> [j \in 1..sh[2] |-> QSub(At(A, i, j), At(B, i, j))]])

\* A / B elementwise with numpy broadcasting (shapes broadcastable)
DivBroadcast(A, B) ==
    Force(LET sh == BroadcastShape(Shape(A), Shape(B))
    IN  [i \in 1..sh[1] |-> [j \in 1..sh[2] |-> QDiv(At(A, i, j), At(B, i, j))]])

\* preactivation - np.max(preactivation, axis=0, keepdims=True)
SubtractMax(Z) == SubBroadcast(Z, MaxAxis0(Z))

\* np.exp(Z), elementwise
ExpArray(Z) ==
    Force([i \in 1..Rows(Z) |-> [j \in 1..Cols(Z) |-> Exp(Z[i][j])]])

\* mutant: the sum is taken along the sample axis
Normalise_axis1(E) == DivBroadcast(E, SumAxis1(E))

\* exp_preactivation / np.sum(exp_preactivation, axis=0, keepdims=True)
Normalise(E) == DivBroadcast(E, SumAxis0(E))

\* Softmax.forward_pass(preactivation): "-=" writes the shifted values into the
\* argument's own array object
Softmax_forward_pass(h, s, a) ==
    LET h1  == [h EXCEPT ![a] = SubtractMax(h[a])]
        act == Normalise(ExpArray(h1[a]))
    IN  Outcome(Store(h1, act),
                [s EXCEPT !.layer_output = NewAddr(h1)],
                Return(NewAddr(h1)))

\* mutant: the diagonal is summed over the batch, not averaged
JacobianDiag_sum(A) ==
    Force([i \in 1..Rows(A) |->
        QSum([t \in 1..Cols(A) |-> QMul(A[i][t], QSub(QOne, A[i][t]))])])

\* np.mean(A * (1 - A), axis=1), flattened: entry i of the Jacobian's diagonal
JacobianDiag(A) ==
    Force([i \in 1..Rows(A) |->
        QMul(Q(1, Cols(A)),
             QSum([t \in 1..Cols(A) |-> QMul(A[i][t], QSub(QOne, A[i][t]))]))])

\* diag + off_diag, off_diag = -np.matmul(A, A.T) with its diagonal set to 0
Jacobian(A) ==
    Force(LET off == MatMul(A, Transpose(A))
    IN  [i \in 1..Rows(A) |-> [j \in 1..Rows(A) |->
            IF i = j THEN JacobianDiag(A)[i] ELSE QNeg(off[i][j])]])

\* mutant: without a cached output the gradient is passed through
Softmax_backward_pass_through(h, s, a) ==
    IF s.layer_output = None
    THEN Outcome(h, s, Return(a))
    ELSE IF Rows(h[s.layer_output]) # Rows(h[a])
    THEN Outcome(h, s, Raise("ValueError"))
    ELSE Outcome(Store(h, MatMul(Jacobian(h[s.layer_output]), h[a])), s,
                 Return(NewAddr(h)))

\* Softmax.backward_pass(grad_activation)
Softmax_backward_pass(h, s, a) ==
    IF s.layer_output = None
    THEN Outcome(h, s, Raise("TypeError"))        \* 1 - None
    ELSE IF Rows(h[s.layer_output]) # Rows(h[a])
    THEN Outcome(h, s, Raise("ValueError"))       \* np.matmul(jacobian, dA) not aligned
    ELSE
    LET dz == MatMul(Jacobian(h[s.layer_output]), h[a])
    IN  IF Shape(dz) # Shape(h[a])
        THEN Outcome(h, s, Raise("AssertionError"))
        ELSE Outcome(Store(h, dz), s, Return(NewAddr(h)))

\* ---------------------------------------------------------------- actions
\* What the caller passes: its own array x ("x"), its own array dy ("dy"), or
\* the array the last call returned ("ret"); to initialise_weights, a number.
ArgRef(p) == IF p = "x" THEN args.x ELSE IF p = "dy" THEN args.dy ELSE ret.ref

HasArg(p) == p \in {"x", "dy"} \/ (ret.kind = "return" /\ ret.ref # None)

\* One call on one layer: the layer's attributes, the heap and the result
\* change as the method's outcome says; call records which call it was.
Do(layer, method, p, out) ==
    LET d == IF layer = "Dense"   THEN out.layer ELSE dense
        r == IF layer = "Relu"    THEN out.layer ELSE relu
        s == IF layer = "Softmax" THEN out.layer ELSE softmax
        f == Renumber(Roots(d, r, s, args, out.ret), <<>>)
    IN  /\ call'    = [layer |-> layer, method |-> method, arg |-> p,
                       before |-> <<call.layer, call.method, call.arg>>]
        /\ dense'   = MoveDense(d, f)
        /\ relu'    = MoveRelu(r, f)
        /\ softmax' = MoveSoftmax(s, f)
        /\ args'    = MoveArgs(args, f)
        /\ ret'     = MoveRet(out.ret, f)
        /\ heap'    = Collect(out.heap, f)

InitialiseWeights(prev, seed) ==
    Do("Dense", "initialise_weights", ToString(prev),
       Dense_initialise_weights(heap, dense, prev, seed))

InitialiseBias ==
    Do("Dense", "initialise_bias", "none", Dense_initialise_bias(heap, dense))

DenseForward(p) ==
    /\ HasArg(p)
    /\ Do("Dense", "forward", p, Dense_forward_pass(heap, dense, ArgRef(p)))

DenseBackward(p) ==
    /\ HasArg(p)
    /\ Do("Dense", "backward", p, Dense_backward_pass(heap, dense, ArgRef(p)))

ReluForward(p) ==
    /\ HasArg(p)
    /\ Do("Relu", "forward", p, Relu_forward_pass(heap, relu, ArgRef(p)))

ReluBackward(p) ==
    /\ HasArg(p)
    /\ Do("Relu", "backward", p, Relu_backward_pass(heap, relu, ArgRef(p)))

\* The caller passes integer-valued preactivations (Exp is defined on those).
SoftmaxForward(p) ==
    /\ HasArg(p)
    /\ IsIntArray(heap[ArgRef(p)])
    /\ Do("Softmax", "forward", p, Softmax_forward_pass(heap, softmax, ArgRef(p)))

SoftmaxBackward(p) ==
    /\ HasArg(p)
    /\ Do("Softmax", "backward", p, Softmax_backward_pass(heap, softmax, ArgRef(p)))

\* mutant: a method that is neither name falls through to the forward pass
Layer_call_default(method, h, l, forward, backward) ==
    IF method = "backward" THEN backward ELSE forward

\* Layer.__call__(input_activation_or_grad, method): forward and backward are
\* the outcomes of the layer's own forward_pass and backward_pass
Layer_call(method, h, l, forward, backward) ==
    IF method = "forward" THEN forward
    ELSE IF method = "backward" THEN backward
    ELSE Outcome(h, l, Raise("ValueError"))

\* the method names a caller passes: the two the entry point knows and one
\* it does not
Methods == {"forward", "backward", "predict"}

DenseCall(p, method) ==
    Do("Dense", method, p,
       Layer_call(method, heap, dense,
                  Dense_forward_pass(heap, dense, ArgRef(p)),
                  Dense_backward_pass(heap, dense, ArgRef(p))))

ReluCall(p, method) ==
    Do("Relu", method, p,
       Layer_call(method, heap, relu,
                  Relu_forward_pass(heap, relu, ArgRef(p)),
                  Relu_backward_pass(heap, relu, ArgRef(p))))

SoftmaxCall(p, method) ==
    /\ method = "forward" => IsIntArray(heap[ArgRef(p)])
    /\ Do("Softmax", method, p,
          Layer_call(method, heap, softmax,
                     Softmax_forward_pass(heap, softmax, ArgRef(p)),
                     Softmax_backward_pass(heap, softmax, ArgRef(p))))

\* ---------------------------------------------------------- specifications
\* After construction: the three layers as their __init__ leaves them, and the
\* caller holding two arrays of its choice, x and dy.
Init ==
    /\ \E k \in 1..MaxDim : dense = DenseInit(k)
    /\ relu = ReluInit
    /\ softmax = SoftmaxInit
    /\ args = [x |-> 1, dy |-> 2]
    /\ \E r1 \in 1..MaxDim, c1 \in 1..MaxBatch, s1 \in Seeds,
          r2 \in 1..MaxDim, c2 \in 1..MaxBatch, s2 \in Seeds :
          heap = <<Gen(r1, c1, s1), Gen(r2, c2, s2)>>
    /\ ret = NoCall
    /\ call = [layer |-> "none", method |-> "none", arg |-> "none",
               before |-> <<"none", "none", "none">>]
    /\ calls = 0

\* A Dense layer on its own: forward on the caller's x, backward on its dy.
NextDense ==
    /\ UNCHANGED calls
    /\ \/ \E prev \in 1..MaxDim, seed \in Seeds : InitialiseWeights(prev, seed)
       \/ InitialiseBias
       \/ DenseForward("x")
       \/ DenseBackward("dy")

SpecDense == Init /\ [][NextDense]_vars

\* A Relu layer on its own, called with the caller's arrays.
NextRelu ==
    /\ UNCHANGED calls
    /\ \/ \E p \in {"x", "dy"} : ReluForward(p)
       \/ \E p \in {"x", "dy"} : ReluBackward(p)

SpecRelu == Init /\ [][NextRelu]_vars

\* A Softmax layer on its own, called with the caller's arrays.
NextSoftmax ==
    /\ UNCHANGED calls
    /\ \/ \E p \in {"x", "dy"} : SoftmaxForward(p)
       \/ \E p \in {"x", "dy"} : SoftmaxBackward(p)

SpecSoftmax == Init /\ [][NextSoftmax]_vars

\* What a container does once the neighbouring layers are known:
\* initialise_weights for the input's feature count, then initialise_bias.
InitialiseDense(seed) ==
    LET w == Dense_initialise_weights(heap, dense, Rows(heap[args.x]), seed)
    IN  /\ dense.weights = None
        /\ Do("Dense", "initialise", "none",
              Dense_initialise_bias(w.heap, w.layer))

\* The caller holding an input x of shape [n,m], with entries of either sign,
\* and a gradient dy of shape [k,m], k the Dense layer's neuron count.
InitChain ==
    /\ relu = ReluInit
    /\ softmax = SoftmaxInit
    /\ args = [x |-> 1, dy |-> 2]
    /\ \E k \in 1..MaxDim, n \in 1..MaxDim, m \in 1..MaxBatch, s \in Seeds :
          /\ dense = DenseInit(k)
          /\ heap = <<Gen(n, m, 1), Gen(k, m, s)>>
    /\ ret = NoCall
    /\ call = [layer |-> "none", method |-> "none", arg |-> "none",
               before |-> <<"none", "none", "none">>]
    /\ calls = 0

\* an activation is threaded forward, a gradient backward
Threads(method) == call.method = method

\* The three layers together, each forward and backward call counted.  A
\* forward call takes the caller's x or the activation the forward call before
\* returned; a backward call takes the caller's dy or the gradient the
\* backward call before returned.
Next ==
    \/ /\ UNCHANGED calls
       /\ \E seed \in Seeds : InitialiseDense(seed)
    \/ /\ calls < MaxCalls
       /\ calls' = calls + 1
       /\ \/ \E p \in {"x", "ret"} :
               /\ p = "ret" => Threads("forward")
               /\ \/ DenseForward(p)
                  \/ ReluForward(p)
                  \/ SoftmaxForward(p)
          \/ \E p \in {"dy", "ret"} :
               /\ p = "ret" => Threads("backward")
               /\ \/ DenseBackward(p)
                  \/ ReluBackward(p)
                  \/ SoftmaxBackward(p)

Spec == InitChain /\ [][Next]_vars

\* The three layers called through Layer.__call__, each call counted: a
\* gradient dy is passed with method "backward", an activation x otherwise.
NextCall ==
    \/ /\ UNCHANGED calls
       /\ \E seed \in Seeds : InitialiseDense(seed)
    \/ /\ calls < MaxEntryCalls
       /\ calls' = calls + 1
       /\ \E p \in {"x", "dy"}, method \in Methods :
             /\ p = "dy" <=> method = "backward"
             /\ \/ DenseCall(p, method)
                \/ ReluCall(p, method)
                \/ SoftmaxCall(p, method)

SpecCall == InitChain /\ [][NextCall]_vars

\* ------------------------------------------------------------- properties
\* In a step, call' names the call that made it, the unprimed variables are
\* the state on entry and the primed ones the state on return.
Called(layer, method) == call'.layer = layer /\ call'.method = method

\* the argument array's value on entry
Entry == heap[ArgRef(call'.arg)]

\* the call returned (raised nothing); Result is the array it returned
Returned == ret'.kind = "return"
Result   == heap'[ret'.ref]

\* the value a reference points to (the empty array for None)
Deref(h, a) == IF a = None THEN <<>> ELSE h[a]

\* a layer's attributes with every reference replaced by the array's value
DenseView(h, d) ==
    [n_neurons |-> d.n_neurons, m_samples |-> d.m_samples,
     layer_input |-> Deref(h, d.layer_input), weights |-> Deref(h, d.weights),
     bias |-> Deref(h, d.bias), grad_weights |-> Deref(h, d.grad_weights),
     grad_bias |-> Deref(h, d.grad_bias)]
ReluView(h, r)    == [layer_input |-> Deref(h, r.layer_input)]
SoftmaxView(h, s) == [layer_output |-> Deref(h, s.layer_output)]

\* sum over t in 1..n of F(t)
SumOver(n, F(_)) == QSum([t \in 1..n |-> F(t)])

C2_DenseGradients ==
    [][ (Called("Dense", "backward") /\ Returned) =>
        LET X  == heap[dense.layer_input]
            W  == heap[dense.weights]
            dY == Entry
            m  == Cols(X)
            gW == heap'[dense'.grad_weights]
            gB == heap'[dense'.grad_bias]
        IN  /\ \A i \in 1..Rows(W), j \in 1..Cols(W) :
                 gW[i][j] = QMul(Q(1, m),
                                 SumOver(m, LAMBDA t : QMul(dY[i][t], X[j][t])))
            /\ \A i \in 1..Rows(W) :
                 gB[i] = << QMul(Q(1, m), SumOver(m, LAMBDA t : dY[i][t])) >>
            /\ \A j \in 1..Cols(W), t \in 1..m :
                 Result[j][t] =
                     SumOver(Rows(W), LAMBDA i : QMul(W[i][j], dY[i][t]))
            /\ (m = 1 /\ \A i \in 1..Rows(dY) : dY[i] = <<QOne>>)
               => /\ \A i \in 1..Rows(W) : gW[i] = Transpose(X)[1]
                  /\ gB = dY
      ]_vars

\* C2 witness: a backward call returned on a batch of two samples with a
\* gradient that is not all ones, and stored a nonzero grad_weights
C2_Witness ==
    /\ call.layer = "Dense" /\ call.method = "backward" /\ ret.kind = "return"
    /\ dense.m_samples = 2
    /\ heap[args.dy] # Gen(Rows(heap[args.dy]), 2, 0)
    /\ heap[dense.grad_weights] # Zeros(Rows(heap[dense.weights]), Cols(heap[dense.weights]))

C4_Relu ==
    [][ /\ Called("Relu", "forward") =>
            /\ Returned
            /\ Shape(Result) = Shape(Entry)
            /\ \A i \in 1..Rows(Entry), j \in 1..Cols(Entry) :
                 /\ Entry[i][j][1] <= 0 => Result[i][j] = QZero
                 /\ Entry[i][j][1] > 0  => Result[i][j] = Entry[i][j]
        /\ ( /\ Called("Relu", "backward")
             /\ relu.layer_input # None
             /\ Shape(Entry) = Shape(heap[relu.layer_input]) ) =>
            LET Y == heap[relu.layer_input]
            IN  /\ Returned
                /\ Shape(Result) = Shape(Y)
                /\ \A i \in 1..Rows(Y), j \in 1..Cols(Y) :
                     Result[i][j] = IF Y[i][j] = QZero THEN QZero ELSE Entry[i][j]
      ]_vars

\* C4 witness: a backward call returned a gradient through a cache holding
\* both a zero and a positive entry, the gradient being nonzero at the zero
C4_Witness ==
    /\ call.layer = "Relu" /\ call.method = "backward" /\ ret.kind = "return"
    /\ \E i \in 1..Rows(heap[relu.layer_input]) :
       \E j \in 1..Cols(heap[relu.layer_input]) :
          /\ heap[relu.layer_input][i][j] = QZero
          /\ heap[ArgRef(call.arg)][i][j] # QZero
          /\ heap[ret.ref][i][j] = QZero
    /\ \E i \in 1..Rows(heap[ret.ref]) : \E j \in 1..Cols(heap[ret.ref]) :
          heap[ret.ref][i][j] # QZero

\* the arrays a layer keeps for its backward pass, by value
CacheOf(layer, h, d, r, s) ==
    IF layer = "Dense" THEN <<Deref(h, d.layer_input), d.m_samples>>
    ELSE IF layer = "Relu" THEN <<Deref(h, r.layer_input)>>
    ELSE <<Deref(h, s.layer_output)>>

\* no forward call has succeeded on the layer yet
NoCache(layer) ==
    IF layer = "Dense" THEN dense.m_samples = None
    ELSE IF layer = "Relu" THEN relu.layer_input = None
    ELSE softmax.layer_output = None

\* every layer's attributes, by value
Views(h, d, r, s) == <<DenseView(h, d), ReluView(h, r), SoftmaxView(h, s)>>

\* C5: on a layer no forward call has succeeded on, backward raises instead
\* of returning a gradient (the TypeError of an operation on None) and
\* leaves every layer's cache, parameters and stored gradients as they were.
C5_BackwardBeforeForward ==
    [][ (call'.method = "backward" /\ NoCache(call'.layer)) =>
        /\ ret'.kind = "raise"
        /\ ret'.exc = "TypeError"
        /\ Views(heap', dense', relu', softmax') = Views(heap, dense, relu, softmax)
      ]_vars

\* C5 witness: Softmax backward was rejected before any Softmax forward, on
\* a well-shaped gradient, after another layer had already run forward
C5_Witness ==
    /\ call.layer = "Softmax" /\ call.method = "backward" /\ call.arg = "dy"
    /\ ret.kind = "raise" /\ ret.exc = "TypeError"
    /\ softmax.layer_output = None
    /\ relu.layer_input # None

C8_ForwardFrame ==
    [][ call'.method = "forward" =>
        /\ heap'[args'.x] = heap[args.x]
        /\ heap'[args'.dy] = heap[args.dy]
        /\ \A f \in {"weights", "bias", "grad_weights", "grad_bias"} :
              DenseView(heap', dense')[f] = DenseView(heap, dense)[f]
        /\ \A l \in {"Dense", "Relu", "Softmax"} \ {call'.layer} :
              CacheOf(l, heap', dense', relu', softmax')
                  = CacheOf(l, heap, dense, relu, softmax)
      ]_vars

\* a layer's cached array object
CacheRef(layer) ==
    IF layer = "Dense" THEN dense.layer_input
    ELSE IF layer = "Relu" THEN relu.layer_input
    ELSE softmax.layer_output

\* no array object is the cache of two layers
NoSharedCache ==
    \A l1, l2 \in {"Dense", "Relu", "Softmax"} :
        (l1 # l2 /\ CacheRef(l1) # None) => CacheRef(l1) # CacheRef(l2)

\* C9 as stated: no array object is held in two layers' caches, and no
\* forward or backward call on one layer changes another layer's cached value.
C9_ExclusiveCaches ==
    [][ /\ NoSharedCache'
        /\ call'.method \in {"forward", "backward"} =>
            \A l \in {"Dense", "Relu", "Softmax"} \ {call'.layer} :
                CacheOf(l, heap', dense', relu', softmax')
                    = CacheOf(l, heap, dense, relu, softmax)
      ]_vars

\* C10: a forward call that follows a returned forward call on the same layer
\* with the same input array raises nothing, returns the same output, and
\* leaves the heap, the layers, the caller's arrays and the result exactly as
\* the first call left them; every later call, a backward call included,
\* therefore starts from the state a single forward call leaves.
C10_ForwardTwice ==
    [][ ( /\ call'.method = "forward" /\ call.method = "forward"
          /\ call'.layer = call.layer
          /\ call'.arg = "x" /\ call.arg = "x"
          /\ ret.kind = "return" ) =>
        /\ Returned
        /\ Result = heap[ret.ref]
        /\ <<heap', dense', relu', softmax', args', ret'>>
               = <<heap, dense, relu, softmax, args, ret>>
      ]_vars

\* C10 witness: a second forward call in a row on the same input returned,
\* on the Dense layer and on the Softmax layer
C10_Witness ==
    /\ call.method = "forward" /\ call.arg = "x"
    /\ call.before = <<call.layer, "forward", "x">>
    /\ call.layer = "Dense"
    /\ ret.kind = "return"
    /\ dense.m_samples = 2

\* the outcome of the called layer's own forward_pass on the argument
ForwardOf(layer, p) ==
    IF layer = "Dense" THEN Dense_forward_pass(heap, dense, ArgRef(p))
    ELSE IF layer = "Relu" THEN Relu_forward_pass(heap, relu, ArgRef(p))
    ELSE Softmax_forward_pass(heap, softmax, ArgRef(p))

\* the outcome of the called layer's own backward_pass on the argument
BackwardOf(layer, p) ==
    IF layer = "Dense" THEN Dense_backward_pass(heap, dense, ArgRef(p))
    ELSE IF layer = "Relu" THEN Relu_backward_pass(heap, relu, ArgRef(p))
    ELSE Softmax_backward_pass(heap, softmax, ArgRef(p))

\* C11: through the entry point, method "forward" has exactly the effect and
\* result of the layer's forward pass and "backward" of its backward pass; any
\* other method raises (the ValueError of Layer.__call__), returns nothing, and
\* leaves every attribute of every layer and the caller's arrays as they were.
C11_EntryPoint ==
    [][ call'.layer \in {"Dense", "Relu", "Softmax"} =>
        /\ call'.method = "forward" =>
              Do(call'.layer, "forward", call'.arg,
                 ForwardOf(call'.layer, call'.arg))
        /\ call'.method = "backward" =>
              Do(call'.layer, "backward", call'.arg,
                 BackwardOf(call'.layer, call'.arg))
        /\ call'.method \notin {"forward", "backward", "initialise"} =>
              /\ ret'.kind = "raise" /\ ret'.exc = "ValueError"
              /\ ret'.ref = None
              /\ Views(heap', dense', relu', softmax')
                     = Views(heap, dense, relu, softmax)
              /\ heap'[args'.x] = heap[args.x]
              /\ heap'[args'.dy] = heap[args.dy]
      ]_vars

\* C11 witness: an unknown method was rejected on a Relu layer that holds a
\* cache, called on an array its forward pass would not return unchanged
C11_Witness ==
    /\ call.layer = "Relu" /\ call.method = "predict" /\ call.arg = "x"
    /\ ret.kind = "raise" /\ ret.exc = "ValueError"
    /\ relu.layer_input # None
    /\ Maximum0(heap[args.x]) # heap[args.x]

\* C12: Softmax forward returns an array of the input's shape in which every
\* entry lies in [0,1] and every column sums to 1, and caches that array as
\* layer_output.
C12_SoftmaxDistribution ==
    [][ Called("Softmax", "forward") =>
        /\ Returned
        /\ Shape(Result) = Shape(Entry)
        /\ \A i \in 1..Rows(Result), j \in 1..Cols(Result) :
              /\ ~QLess(Result[i][j], QZero)
              /\ ~QLess(QOne, Result[i][j])
        /\ \A j \in 1..Cols(Result) :
              SumOver(Rows(Result), LAMBDA i : Result[i][j]) = QOne
        /\ softmax'.layer_output = ret'.ref
      ]_vars

\* C12 witness: a forward call returned two columns of more than one entry,
\* the entries of a column not all equal
C12_Witness ==
    /\ call.layer = "Softmax" /\ call.method = "forward" /\ ret.kind = "return"
    /\ softmax.layer_output = ret.ref
    /\ Rows(heap[ret.ref]) > 1 /\ Cols(heap[ret.ref]) > 1
    /\ \E j \in 1..Cols(heap[ret.ref]) : heap[ret.ref][1][j] # heap[ret.ref][2][j]

\* C13: with a cached output y of shape [k,m] and a gradient dy of k rows,
\* Softmax backward returns dz of dy's shape, dz[i][t] = sum_j J[i][j]*dy[j][t],
\* where J[i][i] is (1/m) * sum_s y[i][s]*(1 - y[i][s]) and, for i # j,
\* J[i][j] is -(sum_s y[i][s]*y[j][s]): one Jacobian for the whole batch.
C13_SoftmaxJacobian ==
    [][ ( /\ Called("Softmax", "backward")
          /\ softmax.layer_output # None
          /\ Rows(Entry) = Rows(heap[softmax.layer_output]) ) =>
        LET y  == heap[softmax.layer_output]
            k  == Rows(y)
            m  == Cols(y)
            dY == Entry
            J(i, j) ==
                IF i = j
                THEN QMul(Q(1, m),
                          SumOver(m, LAMBDA s : QMul(y[i][s], QSub(QOne, y[i][s]))))
                ELSE QNeg(SumOver(m, LAMBDA s : QMul(y[i][s], y[j][s])))
        IN  /\ Returned
            /\ Shape(Result) = Shape(dY)
            /\ \A i \in 1..k, t \in 1..Cols(dY) :
                  Result[i][t] = SumOver(k, LAMBDA j : QMul(J(i, j), dY[j][t]))
      ]_vars

\* C13 witness: a backward call returned a nonzero gradient through a cached
\* output of more than one row and more than one sample
C13_Witness ==
    /\ call.layer = "Softmax" /\ call.method = "backward" /\ ret.kind = "return"
    /\ Rows(heap[softmax.layer_output]) > 1
    /\ Cols(heap[softmax.layer_output]) > 1
    /\ heap[ret.ref] # Zeros(Rows(heap[ret.ref]), Cols(heap[ret.ref]))

\* C14 as stated: in every reachable state of a Dense layer, failed calls
\* included, grad_weights has the shape of weights and grad_bias the shape of
\* bias whenever they are set.
C14_GradShapes ==
    /\ (dense.weights # None /\ dense.grad_weights # None) =>
          Shape(heap[dense.grad_weights]) = Shape(heap[dense.weights])
    /\ (dense.bias # None /\ dense.grad_bias # None) =>
          Shape(heap[dense.grad_bias]) = Shape(heap[dense.bias])

\* C15 as stated: with a cache set, a Relu backward call that returns, returns
\* an array of the cached output's shape, and a call on a gradient whose
\* shape differs from the cached output's shape fails instead of returning.
C15_ReluShapeMismatch ==
    [][ (Called("Relu", "backward") /\ relu.layer_input # None) =>
        /\ Returned => Shape(Result) = Shape(heap[relu.layer_input])
        /\ Shape(Entry) # Shape(heap[relu.layer_input]) => ret'.kind = "raise"
      ]_vars

\* the Dense layer's parameters and stored gradients are all None
AllNull(d) ==
    /\ d.weights = None /\ d.bias = None
    /\ d.grad_weights = None /\ d.grad_bias = None

C17_DenseBackwardFrame ==
    [][ (Called("Dense", "backward") /\ Returned) =>
        /\ \A f \in {"n_neurons", "m_samples", "layer_input", "weights", "bias"} :
              DenseView(heap', dense')[f] = DenseView(heap, dense)[f]
        /\ dense'.layer_input = args'.x <=> dense.layer_input = args.x
        /\ dense'.weights # dense'.grad_weights
        /\ dense'.bias # dense'.grad_bias
        /\ heap'[args'.dy] = heap[args.dy]
        /\ heap'[args'.x] = heap[args.x]
        /\ ReluView(heap', relu') = ReluView(heap, relu)
        /\ SoftmaxView(heap', softmax') = SoftmaxView(heap, softmax)
      ]_vars

\* C17 witness: a backward call returned on the caller's dy after storing
\* gradients that differ from the ones stored before it, on two samples
C17_Witness ==
    /\ call.layer = "Dense" /\ call.method = "backward" /\ call.arg = "dy"
    /\ ret.kind = "return"
    /\ dense.m_samples = 2
    /\ heap[dense.grad_weights] # Zeros(Rows(heap[dense.weights]), Cols(heap[dense.weights]))
    /\ heap[dense.grad_bias] # Zeros(dense.n_neurons, 1)
    /\ heap[dense.weights] # heap[dense.grad_weights]

====
